---- MODULE Spec2Model ----
(***************************************************************************)
(* Model of the pathbot client (src/src/lib.rs): the yew component Model,  *)
(* its exploration State, the request guard of Model::fetch and the        *)
(* notification map.  Messages sent with link.send_self are queued and     *)
(* handled one at a time, after the handler that sent them has returned    *)
(* and before any further event of the page or of the network.             *)
(*                                                                         *)
(* Msg::Init is an intent the page may raise at any time (the start, and   *)
(* the restart the view keeps for later); Model::update handles it in      *)
(* every state.  A panic!/expect of the code aborts the program: the       *)
(* assignments made before it stay, `panicked` is set, and no further      *)
(* message is handled.                                                     *)
(***************************************************************************)
EXTENDS Integers, Sequences, FiniteSets, TLC

\* ------------------------------------------------------------------ bounds
\* Total number of network requests the model lets the client send.
MaxRequests == 3
\* Total number of Msg::Init intents (the first start and the restarts).
MaxInits == 2
\* Number of moves of a walk on the grid.
MaxTrail == 2
\* Largest coordinate, either way, a walk on the grid starts from.
MaxCoord == 1

\* ------------------------------------------------------------- value types
None == "None"

MoveDirection == {"N", "S", "E", "W"}

Coordinate(x, y) == [x |-> x, y |-> y]

\* impl Add for Coordinate
add(self, rhs) == Coordinate(self.x + rhs.x, self.y + rhs.y)

\* a delta whose step to the south is two cells long
delta_long_south(self) ==
    CASE self = "N" -> Coordinate(0, -1)
      [] self = "S" -> Coordinate(0, 2)
      [] self = "W" -> Coordinate(-1, 0)
      [] self = "E" -> Coordinate(1, 0)

\* MoveDirection::delta
delta(self) ==
    CASE self = "N" -> Coordinate(0, -1)
      [] self = "S" -> Coordinate(0, 1)
      [] self = "W" -> Coordinate(-1, 0)
      [] self = "E" -> Coordinate(1, 0)

\* Status
Loading == [tag |-> "Loading"]
InRoom(id) == [tag |-> "InRoom", id |-> id]
Finished(exit) == [tag |-> "Finished", exit |-> exit]

\* Room
Room(status, message, exits, description, hint, location_path) ==
    [status |-> status, message |-> message, exits |-> exits,
     description |-> description, maze_exit_hint |-> hint,
     location_path |-> location_path]

MazeExitHint(direction, distance) == [direction |-> direction, distance |-> distance]

\* Notification
Notification(message, level) == [message |-> message, level |-> level]

\* ------------------------------------------------- wire format (serde_json)
\* The JSON object {}
EmptyJson == [k \in {} |-> ""]

\* A JSON object is a function from the field names it carries to their
\* values: strings, arrays of strings, numbers.
RoomFields == {"status", "message", "exits", "description",
               "mazeExitDirection", "mazeExitDistance", "locationPath"}

\* a RoomStatus written under the name of its variant
serialize_room_status_variant(self) ==
    CASE self = "InProgress" -> "InProgress"
      [] self = "Finished" -> "Finished"

\* Serialize for RoomStatus
serialize_room_status(self) ==
    CASE self = "InProgress" -> "in-progress"
      [] self = "Finished" -> "finished"

\* Deserialize for RoomStatus: the strings that do not end in Err
room_status_known(s) == s \in {"in-progress", "finished"}

\* Deserialize for RoomStatus
deserialize_room_status(s) ==
    CASE s = "in-progress" -> "InProgress"
      [] s = "finished" -> "Finished"

\* MoveDirection::short_name, used by Serialize for MoveDirection
move_short_name(self) ==
    CASE self = "N" -> "N"
      [] self = "S" -> "S"
      [] self = "E" -> "E"
      [] self = "W" -> "W"

\* Deserialize for MoveDirection: the strings that do not end in Err
move_direction_known(s) == s \in {"N", "S", "E", "W"}

\* Deserialize for MoveDirection
deserialize_move_direction(s) ==
    CASE s = "N" -> "N"
      [] s = "S" -> "S"
      [] s = "E" -> "E"
      [] s = "W" -> "W"

\* CompassDirection
CompassDirection == {"N", "S", "E", "W", "NW", "NE", "SW", "SE"}

\* MoveDirection::angle_deg (pathbot_api.rs); the f32 values are whole degrees
move_angle_deg(self) ==
    CASE self = "N" -> 0
      [] self = "E" -> 90
      [] self = "S" -> 180
      [] self = "W" -> 270

\* CompassDirection::angle_deg (pathbot_api.rs)
compass_angle_deg(self) ==
    CASE self = "N" -> 0
      [] self = "NE" -> 45
      [] self = "E" -> 90
      [] self = "SE" -> 135
      [] self = "S" -> 180
      [] self = "SW" -> 225
      [] self = "W" -> 270
      [] self = "NW" -> 315

\* MoveDirection::angle_deg (entities.rs)
entities_move_angle_deg(self) ==
    CASE self = "N" -> 0
      [] self = "E" -> 90
      [] self = "S" -> 180
      [] self = "W" -> 270

\* CompassDirection::angle_deg (entities.rs)
entities_compass_angle_deg(self) ==
    CASE self = "N" -> 0
      [] self = "NW" -> 45
      [] self = "W" -> 90
      [] self = "SW" -> 135
      [] self = "S" -> 180
      [] self = "SE" -> 225
      [] self = "E" -> 270
      [] self = "NE" -> 315

\* CompassDirection::short_name, used by Serialize for CompassDirection
compass_short_name(self) ==
    CASE self = "N" -> "N"
      [] self = "S" -> "S"
      [] self = "E" -> "E"
      [] self = "W" -> "W"
      [] self = "NW" -> "NW"
      [] self = "NE" -> "NE"
      [] self = "SW" -> "SW"
      [] self = "SE" -> "SE"

\* Deserialize for CompassDirection: the strings that do not end in Err
compass_direction_known(s) == s \in {"N", "S", "E", "W", "NW", "NE", "SW", "SE"}

\* Deserialize for CompassDirection
deserialize_compass_direction(s) ==
    CASE s = "N" -> "N"
      [] s = "S" -> "S"
      [] s = "E" -> "E"
      [] s = "W" -> "W"
      [] s = "NW" -> "NW"
      [] s = "NE" -> "NE"
      [] s = "SW" -> "SW"
      [] s = "SE" -> "SE"

\* impl From<Room> for RawRoom, then the derived Serialize of RawRoom
serialize_room(room) ==
    [status |-> serialize_room_status(room.status),
     message |-> room.message,
     exits |-> [i \in 1..Len(room.exits) |-> move_short_name(room.exits[i])],
     description |-> room.description,
     mazeExitDirection |-> compass_short_name(room.maze_exit_hint.direction),
     mazeExitDistance |-> room.maze_exit_hint.distance,
     locationPath |-> room.location_path]

\* The derived Deserialize of RawRoom succeeds: every field is there (fields
\* it does not know are ignored) and every enumerated string is known
raw_room_ok(json) ==
    /\ RoomFields \subseteq DOMAIN json
    /\ room_status_known(json.status)
    /\ \A i \in 1..Len(json.exits) : move_direction_known(json.exits[i])
    /\ compass_direction_known(json.mazeExitDirection)

\* Deserialize for Room: RawRoom::deserialize, then impl From<RawRoom> for Room
deserialize_room(json) ==
    Room(deserialize_room_status(json.status),
         json.message,
         [i \in 1..Len(json.exits) |->
                deserialize_move_direction(json.exits[i])],
         json.description,
         MazeExitHint(deserialize_compass_direction(json.mazeExitDirection),
                      json.mazeExitDistance),
         json.locationPath)

\* The derived Deserialize of Message succeeds
message_ok(json) == "message" \in DOMAIN json

\* The derived Deserialize of Message
deserialize_message(json) == [message |-> json.message]

\* The derived Serialize of Message
serialize_message(message) == [message |-> message.message]

\* The derived Deserialize of Exit succeeds
exit_ok(json) ==
    /\ {"status", "description"} \subseteq DOMAIN json
    /\ room_status_known(json.status)

\* The derived Deserialize of Exit
deserialize_exit(json) ==
    [status |-> deserialize_room_status(json.status),
     description |-> json.description]

\* The derived Serialize of Exit
serialize_exit(exit) ==
    [status |-> serialize_room_status(exit.status),
     description |-> exit.description]

\* PathbotApiMessage, and the Err of Result<PathbotApiMessage, Error>
ApiRoom(room) == [kind |-> "Room", room |-> room]
ApiMessage(message) == [kind |-> "Message", message |-> message]
ApiExit(exit) == [kind |-> "Exit", exit |-> exit]
ApiErr(error) == [kind |-> "Err", error |-> error]

\* The error of an untagged enum none of whose variants matched
NoVariant == "data did not match any variant of untagged enum PathbotApiMessage"

\* The derived Deserialize of PathbotApiMessage, #[serde(untagged)]: the
\* variants are tried in the order they are declared, Room, Message, Exit,
\* and the first that deserializes is the result
from_json(json) ==
    IF raw_room_ok(json) THEN ApiRoom(deserialize_room(json))
    ELSE IF message_ok(json) THEN ApiMessage(deserialize_message(json))
    ELSE IF exit_ok(json) THEN ApiExit(deserialize_exit(json))
    ELSE ApiErr(NoVariant)

\* The derived Serialize of PathbotApiMessage, #[serde(untagged)]
to_json(api) ==
    CASE api.kind = "Room" -> serialize_room(api.room)
      [] api.kind = "Message" -> serialize_message(api.message)
      [] api.kind = "Exit" -> serialize_exit(api.exit)

\* ----------------------------------------------- what the API may answer
\* Location paths the API hands out.
Paths == {"/pathbot/room1", "/pathbot/room2"}
\* Exit lists the API hands out.
ExitLists == {<<"N", "E">>, <<"N", "S">>, << >>}

ApiRooms ==
    {Room("InProgress", "", ex, "d", MazeExitHint("NE", 5), p) :
        p \in Paths, ex \in ExitLists}
ApiMessages == {[message |-> "slow down"]}
ApiExits == {[status |-> "Finished", description |-> "done"]}
ApiErrors == {NoVariant}

\* The bodies the API answers with: a room, a message, an exit, or a body
\* that is none of them (here the empty object).
ApiBodies ==
    {serialize_room(r) : r \in ApiRooms}
    \cup {serialize_message(m) : m \in ApiMessages}
    \cup {serialize_exit(e) : e \in ApiExits}
    \cup {EmptyJson}

\* The status codes the API answers with.
HttpStatuses == {200, 500}

\* What the response callback of Model::fetch receives: the head of the
\* response (`_meta`) and its body, which Json(..) decodes into `data`.
Responses == [status : HttpStatuses, body : ApiBodies]

\* Keys the keydown listener may report.
Keys == {"N", "e", "W", "s", "Escape", "x"}

\* ----------------------------------------------------------- partial maps
\* HashMap::insert
Put(m, k, v) == [x \in (DOMAIN m) \cup {k} |-> IF x = k THEN v ELSE m[x]]
\* HashMap::default / HashMap::clear
EmptyMap == [x \in {} |-> None]

\* ------------------------------------------------------------------- state
VARIABLES
    state,                 \* Model.state: State{rooms, room_coords, coord_to_id, status}
    fetching,              \* Model.fetching
    fetching_move,         \* Model.fetching_move
    keydown_task,          \* Model.keydown_task is Some
    notifications,         \* Model.notifications, in insertion order: <<id, Notification>>
    next_notification_id,  \* Model.next_notification_id
    queue,                 \* messages sent with link.send_self, not yet handled
    requests,              \* requests handed to FetchService::fetch, not yet answered
    panicked,              \* a panic!/expect of the code has aborted the program
    handled,               \* the last message passed to Model::update
    arrival,               \* <<the last room received for a move, where from>>, or << >>
    sent,                  \* number of requests sent so far
    inits,                 \* number of Msg::Init handled so far
    meta,                  \* <<status code>> of the response being handled, or << >>
    wire,                  \* <<JSON object>> being decoded or just encoded, or << >>
    decoded,               \* <<result of decoding wire>>, or << >>
    value,                 \* <<PathbotApiMessage to encode>>, or << >>
    origin,                \* Coordinate a walk on the grid starts from
    cursor,                \* Coordinate the walk has reached
    trail,                 \* the MoveDirections walked, in order
    heading,               \* a CompassDirection
    angles                 \* <<the angle_deg of heading, by definition>>, or << >>

vars == <<state, fetching, fetching_move, keydown_task, notifications,
          next_notification_id, queue, requests, panicked, handled, arrival,
          sent, inits,
          meta, wire, decoded, value, origin, cursor, trail, heading, angles>>

\* The variables of the walk on the grid and of the angle tables, which the
\* client's handlers and the codec do not touch.
geometry == <<origin, cursor, trail, heading, angles>>

\* The variables of the codec, which the client's handlers do not touch.
codec == <<wire, decoded, value>>

\* State::default
StateDefault ==
    [rooms |-> EmptyMap, room_coords |-> EmptyMap, coord_to_id |-> EmptyMap,
     status |-> Loading]

\* Model::create
Create ==
    /\ state = StateDefault
    /\ fetching = FALSE
    /\ fetching_move = None
    /\ keydown_task = FALSE
    /\ notifications = << >>
    /\ next_notification_id = 0
    /\ queue = << >>
    /\ requests = << >>
    /\ panicked = FALSE
    /\ handled = [type |-> "Create"]
    /\ arrival = << >>
    /\ sent = 0
    /\ inits = 0
    /\ meta = << >>

\* No walk on the grid, no angle taken.
NoWalk ==
    /\ origin = Coordinate(0, 0)
    /\ cursor = Coordinate(0, 0)
    /\ trail = << >>
    /\ heading = "N"
    /\ angles = << >>

\* The client as created, no response decoded yet.
Init ==
    /\ Create
    /\ wire = << >>
    /\ decoded = << >>
    /\ value = << >>
    /\ NoWalk

\* ------------------------------------------------------ State's operations
\* State::restart
restart(s) == [s EXCEPT !.status = Loading, !.rooms = EmptyMap]

\* State::exited
exited(s) == s.status.tag = "Finished"

\* State::current_exits, current_coordinates, current_exit_hint: the Option
\* is Some exactly when status is InRoom(id) and rooms.get(id) is Some
has_current_room(s) == s.status.tag = "InRoom" /\ s.status.id \in DOMAIN s.rooms

\* State::current_exits (the value inside Some)
current_exits(s) == s.rooms[s.status.id][1].exits

\* State::current_coordinates (the value inside Some)
current_coordinates(s) == s.rooms[s.status.id][2]

\* State::current_exit_hint (the value inside Some)
current_exit_hint(s) == s.rooms[s.status.id][1].maze_exit_hint

\* State::current_room_id
current_room_id(s) == IF s.status.tag = "InRoom" THEN s.status.id ELSE None

\* contains that looks at the first element only
contains_first(v, e) == Len(v) > 0 /\ v[1] = e

\* Vec::contains
contains(v, e) == \E i \in 1..Len(v) : v[i] = e

\* State::can_move_direction
can_move_direction(s, direction) ==
    IF has_current_room(s)
    THEN contains(current_exits(s), direction)
    ELSE FALSE

\* State::insert_room: the two aborts of the Some(prev_move) branch
insert_room_panics(s, last_move) ==
    /\ last_move # None
    /\ \/ s.status.tag # "InRoom"
       \/ s.status.id \notin DOMAIN s.rooms

\* a first room that is not put at the origin
insert_room_position_shifted(s, last_move) ==
    IF last_move # None
    THEN add(s.rooms[s.status.id][2], delta(last_move))
    ELSE Coordinate(0, 1)

\* State::insert_room: the position given to the room
insert_room_position(s, last_move) ==
    IF last_move # None
    THEN add(s.rooms[s.status.id][2], delta(last_move))
    ELSE Coordinate(0, 0)

\* an insert_room that puts every room at the origin
insert_room_at_origin(s, room, last_move) ==
    LET position == Coordinate(0, 0)
    IN  [s EXCEPT
            !.rooms = Put(s.rooms, room.location_path, <<room, position>>),
            !.room_coords = Put(s.room_coords, room.location_path, position),
            !.coord_to_id = Put(s.coord_to_id, position, room.location_path)]

\* State::insert_room, when it does not abort
insert_room(s, room, last_move) ==
    LET position == insert_room_position(s, last_move)
    IN  [s EXCEPT
            !.rooms = Put(s.rooms, room.location_path, <<room, position>>),
            !.room_coords = Put(s.room_coords, room.location_path, position),
            !.coord_to_id = Put(s.coord_to_id, position, room.location_path)]

\* State::reached_exit: the inverse of the last move
exit_move(last_move) ==
    CASE last_move = "N" -> "S"
      [] last_move = "S" -> "N"
      [] last_move = "E" -> "W"
      [] last_move = "W" -> "E"

exit_room_id == "exit_room_yay"

\* State::reached_exit: the room faked for the map
exit_room(exit, last_move) ==
    Room("Finished", "Thank you for playing :)", <<exit_move(last_move)>>,
         exit.description, MazeExitHint("N", 0), exit_room_id)

\* State::reached_exit: expect on last_move, then the aborts of insert_room
reached_exit_panics(s, last_move) ==
    \/ last_move = None
    \/ insert_room_panics(s, last_move)

\* State::reached_exit, when it does not abort (it returns exit_room_id)
reached_exit(s, exit, last_move) ==
    [insert_room(s, exit_room(exit, last_move), last_move)
        EXCEPT !.status = Finished(exit)]

\* State::draw_map: the expect on current_coordinates
draw_map_panics(s) == ~has_current_room(s)

\* a loading that looks at the status only
loading_status_only == state.status.tag = "Loading"

\* Model::loading
loading == fetching \/ state.status.tag = "Loading"

\* ---------------------------------------------------------------- messages
MsgInit == [type |-> "Init"]
MsgHandleKeyDown(key) == [type |-> "HandleKeyDown", key |-> key]
MsgFetchNextRoom(direction) == [type |-> "FetchNextRoom", direction |-> direction]
MsgReceivedRoom(room, last_move) ==
    [type |-> "ReceivedRoom", room |-> room, last_move |-> last_move]
MsgMoveToRoom(room_id) == [type |-> "MoveToRoom", room_id |-> room_id]
MsgReceivedMessage(message) == [type |-> "ReceivedMessage", message |-> message]
MsgReceivedExit(exit, last_move) ==
    [type |-> "ReceivedExit", exit |-> exit, last_move |-> last_move]
MsgFetchRoomFailed(error) == [type |-> "FetchRoomFailed", error |-> error]
MsgNewNotification(notification) ==
    [type |-> "NewNotification", notification |-> notification]
MsgNotificationClosed(id) == [type |-> "NotificationClosed", id |-> id]
MsgClearNotifications == [type |-> "ClearNotifications"]

\* FetchRoomRequest
StartRoom == [kind |-> "StartRoom"]
NextRoom(location_path, direction) ==
    [kind |-> "NextRoom", location_path |-> location_path, direction |-> direction]

\* -------------------------------------------------------------- Model::fetch
\* a target coordinate two cells away
next_coords_two_cells(request) ==
    add(add(current_coordinates(state), delta(request.direction)),
        delta(request.direction))

\* Model::fetch: the coordinate of the room the move leads to
next_coords(request) == add(current_coordinates(state), delta(request.direction))

\* a cache check that never finds the room
cached_never(request) == FALSE

\* Model::fetch: "Check if the room is cached"
cached(request) ==
    /\ request.kind = "NextRoom"
    /\ has_current_room(state)
    /\ next_coords(request) \in DOMAIN state.coord_to_id

\* Model::fetch: the request built and handed to FetchService::fetch, with the
\* last_move its callback captures
built(request) ==
    IF request.kind = "StartRoom"
    THEN [url |-> "/pathbot/start", body |-> None, last_move |-> None]
    ELSE [url |-> request.location_path, body |-> request.direction,
          last_move |-> request.direction]

\* a guard that lets every request through
guard_never == FALSE

\* Model::fetch: the guard on `fetching`
guard_drops == fetching

\* Model::fetch would hand a request to the network
sends(request) ==
    /\ ~guard_drops
    /\ request.kind = "NextRoom" => has_current_room(state) /\ ~cached(request)

\* Model::fetch(request); q are the self-sent messages still to handle and
\* reqs the requests still unanswered
fetch(request, q, reqs) ==
    IF guard_drops
    THEN /\ queue' = q
         /\ requests' = reqs
         /\ UNCHANGED <<fetching, fetching_move, sent, panicked>>
    ELSE /\ fetching_move' =
                IF request.kind = "StartRoom" THEN None ELSE request.direction
         /\ IF request.kind = "NextRoom" /\ ~has_current_room(state)
            THEN \* expect("Logic error: must have a room")
                 /\ fetching' = TRUE
                 /\ panicked' = TRUE
                 /\ queue' = q
                 /\ requests' = reqs
                 /\ UNCHANGED sent
            ELSE IF cached(request)
            THEN /\ fetching' = FALSE
                 /\ queue' = Append(q,
                        MsgMoveToRoom(state.coord_to_id[next_coords(request)]))
                 /\ requests' = reqs
                 /\ UNCHANGED <<sent, panicked>>
            ELSE /\ fetching' = TRUE
                 /\ requests' = Append(reqs, built(request))
                 /\ sent' = sent + 1
                 /\ queue' = q
                 /\ UNCHANGED panicked

\* ------------------------------------------------------------ Model::update
\* Every handler below takes q, the self-sent messages still to handle, and
\* reqs, the requests still unanswered, once the handled message is taken off.

\* Msg::Init
UpdateInit(q, reqs) ==
    /\ state' = restart(state)
    /\ fetch(StartRoom, q, reqs)
    /\ keydown_task' = TRUE
    /\ inits' = inits + 1
    /\ UNCHANGED <<notifications, next_notification_id>>

\* Msg::HandleKeyDown
key_message(key) ==
    CASE key \in {"N", "n"} -> <<MsgFetchNextRoom("N")>>
      [] key \in {"E", "e"} -> <<MsgFetchNextRoom("E")>>
      [] key \in {"W", "w"} -> <<MsgFetchNextRoom("W")>>
      [] key \in {"S", "s"} -> <<MsgFetchNextRoom("S")>>
      [] key = "Escape" -> <<MsgClearNotifications>>
      [] OTHER -> << >>

UpdateHandleKeyDown(key, q, reqs) ==
    /\ queue' = q \o key_message(key)
    /\ requests' = reqs
    /\ UNCHANGED <<state, fetching, fetching_move, keydown_task, notifications,
                   next_notification_id, panicked, sent, inits>>

\* Msg::FetchNextRoom
UpdateFetchNextRoom(direction, q, reqs) ==
    IF loading \/ ~can_move_direction(state, direction)
    THEN /\ queue' = q
         /\ requests' = reqs
         /\ UNCHANGED <<state, fetching, fetching_move, keydown_task,
                        notifications, next_notification_id, panicked, sent, inits>>
    ELSE \* status is InRoom(current_room_id) here: the other arms only log
         /\ fetch(NextRoom(state.status.id, direction), q, reqs)
         /\ UNCHANGED <<state, keydown_task, notifications,
                        next_notification_id, inits>>

\* a ReceivedRoom that stores the room before it aborts
UpdateReceivedRoom_insert_first(room, last_move, q, reqs) ==
    /\ fetching' = FALSE
    /\ fetching_move' = None
    /\ requests' = reqs
    /\ IF insert_room_panics(state, last_move)
       THEN /\ panicked' = TRUE
            /\ queue' = q
            /\ state' = insert_room(state, room, None)
       ELSE /\ state' = insert_room(state, room, last_move)
            /\ queue' = Append(q, MsgMoveToRoom(room.location_path))
            /\ UNCHANGED panicked
    /\ UNCHANGED <<keydown_task, notifications, next_notification_id, sent, inits>>

\* Msg::ReceivedRoom
UpdateReceivedRoom(room, last_move, q, reqs) ==
    /\ fetching' = FALSE
    /\ fetching_move' = None
    /\ requests' = reqs
    /\ IF insert_room_panics(state, last_move)
       THEN /\ panicked' = TRUE
            /\ queue' = q
            /\ UNCHANGED state
       ELSE /\ state' = insert_room(state, room, last_move)
            /\ queue' = Append(q, MsgMoveToRoom(room.location_path))
            /\ UNCHANGED panicked
    /\ UNCHANGED <<keydown_task, notifications, next_notification_id, sent, inits>>

\* Msg::MoveToRoom
UpdateMoveToRoom(room_id, q, reqs) ==
    /\ state' = [state EXCEPT !.status = InRoom(room_id)]
    /\ panicked' = draw_map_panics(state')
    /\ queue' = q
    /\ requests' = reqs
    /\ UNCHANGED <<fetching, fetching_move, keydown_task, notifications,
                   next_notification_id, sent, inits>>

\* a message notification raised at the wrong level
message_notification_info(message) == Notification(message.message, "Info")

\* Msg::ReceivedMessage: the notification it sends
message_notification(message) == Notification(message.message, "Warning")

\* a ReceivedMessage that leaves the guard set
UpdateReceivedMessage_guard_kept(message, q, reqs) ==
    /\ fetching_move' = None
    /\ queue' = Append(q, MsgNewNotification(message_notification(message)))
    /\ requests' = reqs
    /\ UNCHANGED <<state, fetching, keydown_task, notifications,
                   next_notification_id, panicked, sent, inits>>

\* Msg::ReceivedMessage
UpdateReceivedMessage(message, q, reqs) ==
    /\ fetching' = FALSE
    /\ fetching_move' = None
    /\ queue' = Append(q, MsgNewNotification(message_notification(message)))
    /\ requests' = reqs
    /\ UNCHANGED <<state, keydown_task, notifications, next_notification_id,
                   panicked, sent, inits>>

\* Msg::ReceivedExit
UpdateReceivedExit(exit, last_move, q, reqs) ==
    /\ fetching' = FALSE
    /\ fetching_move' = None
    /\ requests' = reqs
    /\ IF reached_exit_panics(state, last_move)
       THEN /\ panicked' = TRUE
            /\ queue' = q
            /\ UNCHANGED state
       ELSE /\ state' = reached_exit(state, exit, last_move)
            /\ queue' = q \o <<MsgMoveToRoom(exit_room_id),
                               MsgNewNotification(Notification(
                                   "Congratulations! You exited the maze!",
                                   "Success"))>>
            /\ UNCHANGED panicked
    /\ UNCHANGED <<keydown_task, notifications, next_notification_id, sent, inits>>

\* format!("An error occurred while communicating with the API: {}", response)
failure_message(error) ==
    CASE error = NoVariant ->
        "An error occurred while communicating with the API: data did not match any variant of untagged enum PathbotApiMessage"

\* a failure notification raised at the wrong level
failure_notification_danger(error) == Notification(failure_message(error), "Danger")

\* Msg::FetchRoomFailed: the notification it sends
failure_notification(error) == Notification(failure_message(error), "Warning")

\* Msg::FetchRoomFailed
UpdateFetchRoomFailed(error, q, reqs) ==
    /\ fetching' = FALSE
    /\ fetching_move' = None
    /\ queue' = Append(q, MsgNewNotification(failure_notification(error)))
    /\ requests' = reqs
    /\ UNCHANGED <<state, keydown_task, notifications, next_notification_id,
                   panicked, sent, inits>>

\* an insert that puts the new entry in front
lhm_insert_front(m, id, v) ==
    <<<<id, v>>>> \o SelectSeq(m, LAMBDA e : e[1] # id)

\* LinkedHashMap::insert: a key already present is moved to the back
lhm_insert(m, id, v) ==
    Append(SelectSeq(m, LAMBDA e : e[1] # id), <<id, v>>)

\* LinkedHashMap::remove
lhm_remove(m, id) == SelectSeq(m, LAMBDA e : e[1] # id)

\* Msg::NewNotification
UpdateNewNotification(notification, q, reqs) ==
    /\ next_notification_id' = next_notification_id + 1
    /\ notifications' = lhm_insert(notifications, next_notification_id, notification)
    /\ queue' = q
    /\ requests' = reqs
    /\ UNCHANGED <<state, fetching, fetching_move, keydown_task, panicked, sent, inits>>

\* Msg::NotificationClosed
UpdateNotificationClosed(id, q, reqs) ==
    /\ notifications' = lhm_remove(notifications, id)
    /\ queue' = q
    /\ requests' = reqs
    /\ UNCHANGED <<state, fetching, fetching_move, keydown_task,
                   next_notification_id, panicked, sent, inits>>

\* a clear that also starts the keys again from 0
UpdateClearNotifications_rewind(q, reqs) ==
    /\ notifications' = << >>
    /\ next_notification_id' = 0
    /\ queue' = q
    /\ requests' = reqs
    /\ UNCHANGED <<state, fetching, fetching_move, keydown_task,
                   panicked, sent, inits>>

\* Msg::ClearNotifications
UpdateClearNotifications(q, reqs) ==
    /\ notifications' = << >>
    /\ queue' = q
    /\ requests' = reqs
    /\ UNCHANGED <<state, fetching, fetching_move, keydown_task,
                   next_notification_id, panicked, sent, inits>>

\* What the handling of msg makes of `arrival`.  ReceivedRoom for a move d
\* out of room A, with a room of another location_path, records A, d and the
\* room ("arrived"); the next FetchNextRoom, when it is for the inverse of d
\* and the room has that exit, makes it "returning", and the MoveToRoom that
\* follows "returned".  Init, ReceivedExit, any other ReceivedRoom and any
\* other FetchNextRoom forget it.
arrival_next(msg) ==
    CASE msg.type = "ReceivedRoom" ->
            IF /\ msg.last_move # None
               /\ ~insert_room_panics(state, msg.last_move)
               /\ msg.room.location_path # state.status.id
            THEN <<[from |-> state.status.id, move |-> msg.last_move,
                    to |-> msg.room, phase |-> "arrived"]>>
            ELSE << >>
      [] msg.type \in {"Init", "ReceivedExit"} -> << >>
      [] msg.type = "FetchNextRoom" ->
            IF /\ arrival # << >>
               /\ arrival[1].phase = "arrived"
               /\ msg.direction = exit_move(arrival[1].move)
               /\ contains(arrival[1].to.exits, msg.direction)
            THEN <<[arrival[1] EXCEPT !.phase = "returning"]>>
            ELSE << >>
      [] msg.type = "MoveToRoom" ->
            IF arrival # << >> /\ arrival[1].phase = "returning"
            THEN <<[arrival[1] EXCEPT !.phase = "returned"]>>
            ELSE arrival
      [] OTHER -> arrival

\* Model::update
update(msg, q, reqs) ==
    /\ handled' = msg
    /\ arrival' = arrival_next(msg)
    /\ UNCHANGED geometry
    /\ CASE msg.type = "Init" -> UpdateInit(q, reqs)
         [] msg.type = "HandleKeyDown" -> UpdateHandleKeyDown(msg.key, q, reqs)
         [] msg.type = "FetchNextRoom" -> UpdateFetchNextRoom(msg.direction, q, reqs)
         [] msg.type = "ReceivedRoom" ->
                UpdateReceivedRoom(msg.room, msg.last_move, q, reqs)
         [] msg.type = "MoveToRoom" -> UpdateMoveToRoom(msg.room_id, q, reqs)
         [] msg.type = "ReceivedMessage" -> UpdateReceivedMessage(msg.message, q, reqs)
         [] msg.type = "ReceivedExit" ->
                UpdateReceivedExit(msg.exit, msg.last_move, q, reqs)
         [] msg.type = "FetchRoomFailed" -> UpdateFetchRoomFailed(msg.error, q, reqs)
         [] msg.type = "NewNotification" ->
                UpdateNewNotification(msg.notification, q, reqs)
         [] msg.type = "NotificationClosed" -> UpdateNotificationClosed(msg.id, q, reqs)
         [] msg.type = "ClearNotifications" -> UpdateClearNotifications(q, reqs)

\* Model::fetch: the callback given to FetchService::fetch
callback(data, last_move) ==
    CASE data.kind = "Room" -> MsgReceivedRoom(data.room, last_move)
      [] data.kind = "Message" -> MsgReceivedMessage(data.message)
      [] data.kind = "Exit" -> MsgReceivedExit(data.exit, last_move)
      [] data.kind = "Err" -> MsgFetchRoomFailed(data.error)

\* ------------------------------------------------------------------ events
\* The page and the network deliver an event only when the program is alive
\* and every self-sent message has been handled.
idle == ~panicked /\ queue = << >>

RemoveAt(seq, i) == SubSeq(seq, 1, i - 1) \o SubSeq(seq, i + 1, Len(seq))

\* No response is being handled.
NoResponse == meta' = << >> /\ wire' = << >> /\ decoded' = << >> /\ UNCHANGED value

\* The Init intent (start, or restart).
IntentInit ==
    /\ idle
    /\ inits < MaxInits
    /\ sends(StartRoom) => sent < MaxRequests
    /\ update(MsgInit, << >>, requests)
    /\ NoResponse

\* A key goes down on the page; the listener exists once Init has spawned it.
KeyDown ==
    /\ idle
    /\ keydown_task
    /\ \E key \in Keys : update(MsgHandleKeyDown(key), << >>, requests)
    /\ NoResponse

\* A "Go <direction>" button is clicked.
ClickMove ==
    /\ idle
    /\ \E d \in MoveDirection :
          /\ can_move_direction(state, d) /\ ~loading
          /\ sends(NextRoom(state.status.id, d)) => sent < MaxRequests
          /\ update(MsgFetchNextRoom(d), << >>, requests)
    /\ NoResponse

\* The close button of a notification is clicked; the handler takes any key
\* that was ever handed out, still present or not.
ClickClose ==
    /\ idle
    /\ \E id \in 0..(next_notification_id - 1) :
          update(MsgNotificationClosed(id), << >>, requests)
    /\ NoResponse

\* The network answers an outstanding request: Json(..) decodes the body and
\* the callback makes the message.
Complete ==
    /\ idle
    /\ \E i \in 1..Len(requests), response \in Responses :
          /\ meta' = <<response.status>>
          /\ wire' = <<response.body>>
          /\ decoded' = <<from_json(response.body)>>
          /\ update(callback(from_json(response.body), requests[i].last_move),
                    << >>, RemoveAt(requests, i))
    /\ UNCHANGED value

\* The next self-sent message is handled.
Deliver ==
    /\ ~panicked
    /\ queue # << >>
    /\ LET msg == Head(queue) IN
          /\ (msg.type = "FetchNextRoom" /\ ~loading
                /\ can_move_direction(state, msg.direction)
                /\ sends(NextRoom(state.status.id, msg.direction)))
             => sent < MaxRequests
          /\ update(msg, Tail(queue), requests)
    /\ NoResponse

Next ==
    \/ IntentInit
    \/ KeyDown
    \/ ClickMove
    \/ ClickClose
    \/ Complete
    \/ Deliver

Spec == Init /\ [][Next]_vars

\* The same program when the transport answers every request sooner or later
\* (FetchService calls the callback once per request) and the component's
\* scheduler handles every self-sent message.
SpecLive == Spec /\ SF_vars(Complete) /\ WF_vars(Deliver)

\* ---------------------------------------------------------------- the codec
\* The wire format on its own: a JSON object is decoded as the response
\* callback's Json<Result<PathbotApiMessage, Error>> decodes a body, or a
\* PathbotApiMessage is encoded and the encoding decoded again.

Restrict(f, D) == [k \in D |-> f[k]]

\* Objects carrying every field of a room, with known and unknown strings in
\* the enumerated fields.
FullPayloads ==
    [status : {"in-progress", "finished", "bogus"},
     message : {"m"},
     exits : {<<"N", "E">>, <<"N", "x">>},
     description : {"d"},
     mazeExitDirection : {"NE", "north"},
     mazeExitDistance : {5},
     locationPath : {"/pathbot/room1"}]

\* The objects decoded: every choice of fields of the objects above.
WirePayloads == {Restrict(f, D) : f \in FullPayloads, D \in SUBSET RoomFields}

\* The values encoded.
CodecRooms ==
    {Room(st, "m", ex, "d", MazeExitHint(dir, dist), p) :
        st \in {"InProgress", "Finished"},
        ex \in {<< >>, <<"N", "E">>, <<"S", "W", "S">>},
        dir \in CompassDirection,
        dist \in {0, 5},
        p \in Paths}

CodecValues ==
    {ApiRoom(r) : r \in CodecRooms}
    \cup {ApiMessage(m) : m \in ApiMessages}
    \cup {ApiExit(e) : e \in [status : {"InProgress", "Finished"}, description : {"done"}]}

InitCodec ==
    /\ Create
    /\ NoWalk
    /\ decoded = << >>
    /\ \/ value = << >> /\ \E j \in WirePayloads : wire = <<j>>
       \/ wire = << >> /\ \E v \in CodecValues : value = <<v>>

\* serde_json::to_string of the value
Serialize ==
    /\ value # << >>
    /\ wire = << >>
    /\ wire' = <<to_json(value[1])>>
    /\ UNCHANGED <<state, fetching, fetching_move, keydown_task, notifications,
                   next_notification_id, queue, requests, panicked, handled,
                   arrival,
                   sent, inits, meta, decoded, value, geometry>>

\* serde_json::from_str of the object
Deserialize ==
    /\ wire # << >>
    /\ decoded = << >>
    /\ decoded' = <<from_json(wire[1])>>
    /\ UNCHANGED <<state, fetching, fetching_move, keydown_task, notifications,
                   next_notification_id, queue, requests, panicked, handled,
                   arrival,
                   sent, inits, meta, wire, value, geometry>>

NextCodec ==
    \/ Serialize
    \/ Deserialize

SpecCodec == InitCodec /\ [][NextCodec]_vars

\* ------------------------------------------------------------- the geometry
\* The arithmetic of the map on its own: a walk adds the delta of each move
\* to a coordinate, as State::insert_room does, and the angle_deg tables are
\* read for a direction.

\* The coordinates a walk starts from.
Origins == {Coordinate(x, y) : x \in -MaxCoord..MaxCoord, y \in -MaxCoord..MaxCoord}

InitGeometry ==
    /\ Create
    /\ wire = << >>
    /\ decoded = << >>
    /\ value = << >>
    /\ origin \in Origins
    /\ cursor = origin
    /\ trail = << >>
    /\ heading \in CompassDirection
    /\ angles = << >>

\* prev_position + prev_move.delta()
Step ==
    /\ Len(trail) < MaxTrail
    /\ \E d \in MoveDirection :
          /\ cursor' = add(cursor, delta(d))
          /\ trail' = Append(trail, d)
    /\ UNCHANGED <<state, fetching, fetching_move, keydown_task, notifications,
                   next_notification_id, queue, requests, panicked, handled,
                   arrival,
                   sent, inits, meta, codec, origin, heading, angles>>

\* heading.angle_deg(), by each definition of the sources
Measure ==
    /\ angles = << >>
    /\ angles' = <<[compass |-> compass_angle_deg(heading),
                    entities_compass |-> entities_compass_angle_deg(heading),
                    move |-> IF heading \in MoveDirection
                             THEN <<move_angle_deg(heading)>> ELSE << >>,
                    entities_move |-> IF heading \in MoveDirection
                                      THEN <<entities_move_angle_deg(heading)>>
                                      ELSE << >>]>>
    /\ UNCHANGED <<state, fetching, fetching_move, keydown_task, notifications,
                   next_notification_id, queue, requests, panicked, handled,
                   arrival,
                   sent, inits, meta, codec, origin, cursor, trail, heading>>

NextGeometry ==
    \/ Step
    \/ Measure

SpecGeometry == InitGeometry /\ [][NextGeometry]_vars

\* ================================================================== claims
Range(v) == {v[i] : i \in 1..Len(v)}

\* The direction whose delta undoes the delta of d.
Inverse(d) ==
    CHOOSE e \in MoveDirection : add(delta(d), delta(e)) = Coordinate(0, 0)

\* The exit has been reached and no restart has cleared the rooms since.
ExitReached == exit_room_id \in DOMAIN state.rooms

\* C1: at most one request is outstanding; a request is sent only when
\* `fetching` was false, and `fetching` stays true while it is outstanding.
C1_OneRequestInFlight ==
    /\ [](Len(requests) <= 1 /\ (requests # << >> => fetching))
    /\ [][Len(requests') > Len(requests) => ~fetching]_vars

\* A second Init was handled while the start request was still outstanding.
C1_Witness ==
    /\ handled = MsgInit /\ inits = 2 /\ sent = 1
    /\ Len(requests) = 1 /\ fetching

\* C2: once status is Finished it never becomes InRoom again without a
\* restart (which makes it Loading).
C2_FinishedNeverInRoom ==
    [][state.status.tag = "Finished"
        => state'.status.tag \in {"Finished", "Loading"}]_vars

\* C3: after the exit was reached and its follow-up messages handled, no
\* direction can be moved in and no request is sent, until a restart.
C3_NoMoveAfterExit ==
    /\ []((ExitReached /\ queue = << >>)
            => \A d \in MoveDirection : ~can_move_direction(state, d))
    /\ [][(ExitReached /\ handled'.type # "Init") => sent' = sent]_vars

\* C4: if status = InRoom(id) then id is a key of rooms.
C4_CurrentRoomIsKnown ==
    state.status.tag = "InRoom" => state.status.id \in DOMAIN state.rooms

\* C5: a move or Init intent handled while a request is in flight sends
\* nothing and leaves the exploration state and the notifications as they were.
C5_DroppedIntentIsNoOp ==
    [][(fetching /\ handled'.type \in {"Init", "FetchNextRoom"})
        => /\ state' = state
           /\ notifications' = notifications
           /\ requests' = requests
           /\ sent' = sent]_vars

\* C6: a restart sets status to Loading and empties rooms, room_coords and
\* coord_to_id.
C6_RestartClearsAll ==
    [][handled'.type = "Init"
        => /\ state'.status = Loading
           /\ DOMAIN state'.rooms = {}
           /\ DOMAIN state'.room_coords = {}
           /\ DOMAIN state'.coord_to_id = {}]_vars

\* C7: an accepted move toward a coordinate that coord_to_id maps to r sends
\* no request, leaves the guard clear and self-sends MoveToRoom(r); handling
\* that message makes status InRoom(r).
C7_CacheHit ==
    /\ [][\A d \in MoveDirection :
            (/\ handled' = MsgFetchNextRoom(d)
             /\ ~loading
             /\ can_move_direction(state, d)
             /\ add(state.rooms[state.status.id][2], delta(d))
                    \in DOMAIN state.coord_to_id)
            => /\ requests' = requests
               /\ sent' = sent
               /\ ~fetching'
               /\ queue' = <<MsgMoveToRoom(state.coord_to_id[
                        add(state.rooms[state.status.id][2], delta(d))])>>]_vars
    /\ [][(queue # << >> /\ Head(queue).type = "MoveToRoom")
            => state'.status = InRoom(Head(queue).room_id)]_vars

\* A move was answered from the cache (only then is fetching_move still set
\* when MoveToRoom is handled) and the cached room is the current one.
C7_Witness ==
    /\ handled.type = "MoveToRoom"
    /\ fetching_move # None
    /\ state.status = InRoom(handled.room_id)
    /\ ~fetching /\ requests = << >> /\ ~panicked

\* C8: can_move_direction(d) holds exactly when status = InRoom(id) and d is
\* one of the exits of rooms[id]; never while Loading or Finished.
C8_CanMove ==
    \A d \in MoveDirection :
        /\ can_move_direction(state, d)
            <=> /\ state.status.tag = "InRoom"
                /\ state.status.id \in DOMAIN state.rooms
                /\ d \in Range(state.rooms[state.status.id][1].exits)
        /\ state.status.tag \in {"Loading", "Finished"}
            => ~can_move_direction(state, d)

\* In a room with exits N and E: N and E can be moved in, S and W cannot.
C8_Witness ==
    /\ state.status.tag = "InRoom"
    /\ can_move_direction(state, "N") /\ can_move_direction(state, "E")
    /\ ~can_move_direction(state, "S") /\ ~can_move_direction(state, "W")

\* C9: handling an Exit response to a move d issued from the room at c
\* records the synthetic Finished room at c + delta(d) with the inverse of d
\* as only exit, and sends exactly one Success notification.
C9_ExitRecorded ==
    [][(handled'.type = "ReceivedExit" /\ handled'.last_move # None)
        => LET d == handled'.last_move
               c == state.room_coords[requests[1].url]
           IN  /\ ~panicked'
               /\ exit_room_id \in DOMAIN state'.rooms
               /\ state'.rooms[exit_room_id][1].status = "Finished"
               /\ state'.rooms[exit_room_id][1].exits = <<Inverse(d)>>
               /\ state'.rooms[exit_room_id][2] = add(c, delta(d))
               /\ Len(SelectSeq(queue', LAMBDA m :
                        m.type = "NewNotification")) = 1
               /\ \A i \in 1..Len(queue') :
                        queue'[i].type = "NewNotification"
                            => queue'[i].notification.level = "Success"]_vars

\* C10: handling a Message response leaves the exploration state alone, clears
\* the guard and sends one Warning notification with the message text, which
\* is then appended to the notifications.
C10_MessageResponse ==
    /\ [][handled'.type = "ReceivedMessage"
            => /\ state' = state
               /\ ~fetching'
               /\ notifications' = notifications
               /\ queue' = <<MsgNewNotification(
                        Notification(handled'.message.message, "Warning"))>>]_vars
    /\ [][(queue # << >> /\ Head(queue).type = "NewNotification")
            => /\ state' = state
               /\ Len(notifications') = Len(notifications) + 1
               /\ notifications'[Len(notifications')][2] = Head(queue).notification
               /\ SubSeq(notifications', 1, Len(notifications)) = notifications]_vars

\* The Warning of a Message response to a move is in the notifications, the
\* guard is clear and the client is still in its room.
C10_Witness ==
    /\ handled.type = "NewNotification"
    /\ handled.notification = Notification("slow down", "Warning")
    /\ Len(notifications) > 0
    /\ notifications[Len(notifications)][2] = handled.notification
    /\ ~fetching /\ state.status.tag = "InRoom"

\* http::StatusCode::is_success
is_success(code) == code \in 200..299

\* C11: a failed request clears the guard, leaves the exploration state alone
\* and sends one Warning notification, which is then appended; no request is
\* sent by anything but the handling of an Init or FetchNextRoom intent.
C11_FailedRequest ==
    /\ [][handled'.type = "FetchRoomFailed"
            => /\ state' = state
               /\ ~fetching'
               /\ notifications' = notifications
               /\ sent' = sent
               /\ requests' = << >>
               /\ Len(queue') = 1
               /\ queue'[1].type = "NewNotification"
               /\ queue'[1].notification.level = "Warning"]_vars
    /\ [][(queue # << >> /\ Head(queue).type = "NewNotification")
            => /\ Len(notifications') = Len(notifications) + 1
               /\ sent' = sent
               /\ requests' = requests]_vars
    /\ [][sent' > sent => handled'.type \in {"Init", "FetchNextRoom"}]_vars

\* The Warning of a failed request is in the notifications, the guard is
\* clear and nothing is outstanding.
C11_Witness ==
    /\ handled.type = "NewNotification"
    /\ handled.notification.level = "Warning"
    /\ handled.notification.message = failure_message(NoVariant)
    /\ Len(notifications) > 0
    /\ notifications[Len(notifications)][2] = handled.notification
    /\ ~fetching /\ requests = << >>

\* C12: a response whose status is not 2xx is dispatched as FetchRoomFailed
\* and changes neither rooms nor status.
C12_Non2xxIsFailure ==
    [][(meta' # << >> /\ ~is_success(meta'[1]))
        => /\ handled'.type = "FetchRoomFailed"
           /\ state' = state]_vars

\* C13: the Room r answering the start request becomes the current room, at
\* the origin, and the directions that can be moved in are r's exits.
C13_StartRoom ==
    /\ [][(handled'.type = "ReceivedRoom" /\ handled'.last_move = None)
            => /\ ~panicked'
               /\ queue' = <<MsgMoveToRoom(handled'.room.location_path)>>]_vars
    /\ [][(handled.type = "ReceivedRoom" /\ handled.last_move = None
                /\ queue # << >>)
            => LET r == handled.room IN
               /\ state'.status = InRoom(r.location_path)
               /\ ~panicked'
               /\ state'.rooms[r.location_path] = <<r, Coordinate(0, 0)>>
               /\ \A d \in MoveDirection :
                    can_move_direction(state', d) <=> d \in Range(r.exits)]_vars

\* The start request was answered with room1, exits N and E.
C13_Witness ==
    /\ handled = MsgMoveToRoom("/pathbot/room1")
    /\ sent = 1 /\ inits = 1
    /\ state.status = InRoom("/pathbot/room1")
    /\ state.rooms["/pathbot/room1"][2] = Coordinate(0, 0)
    /\ state.rooms["/pathbot/room1"][1].exits = <<"N", "E">>
    /\ can_move_direction(state, "N") /\ ~can_move_direction(state, "S")

\* C14: the Room answering a move d issued from the room at c is stored at
\* c + delta(d), indexed there in coord_to_id, and made the current room.
C14_MoveRoomStored ==
    [][(handled'.type = "ReceivedRoom" /\ handled'.last_move # None)
        => LET d == handled'.last_move
               r == handled'.room
               c == state.room_coords[requests[1].url]
           IN  /\ ~panicked'
               /\ r.location_path \in DOMAIN state'.rooms
               /\ state'.rooms[r.location_path] = <<r, add(c, delta(d))>>
               /\ add(c, delta(d)) \in DOMAIN state'.coord_to_id
               /\ state'.coord_to_id[add(c, delta(d))] = r.location_path
               /\ queue' = <<MsgMoveToRoom(r.location_path)>>]_vars

\* The strings of the wire format's enumerated fields.
WireStatuses == {"in-progress", "finished"}
WireMoves == {"N", "S", "E", "W"}
WireCompass == {"N", "S", "E", "W", "NW", "NE", "SW", "SE"}

\* An enumerated field of the object holds a string that is not one of them.
UnknownEnum(json) ==
    \/ "status" \in DOMAIN json /\ json.status \notin WireStatuses
    \/ "exits" \in DOMAIN json
        /\ \E i \in 1..Len(json.exits) : json.exits[i] \notin WireMoves
    \/ "mazeExitDirection" \in DOMAIN json
        /\ json.mazeExitDirection \notin WireCompass

\* C15: decoding an object with an unrecognised string in an enumerated
\* field fails; it gives no Room, Message or Exit.
C15_UnknownEnumFails ==
    (value = << >> /\ decoded # << >> /\ UnknownEnum(wire[1]))
        => decoded[1].kind = "Err"

\* C16: the Exit shape is tried before the Message shape: an object without
\* the Room fields that carries status and description decodes as Exit, also
\* with a message field, and nothing that carries both decodes as Message.
C16_ExitBeforeMessage ==
    (value = << >> /\ decoded # << >> /\ ~UnknownEnum(wire[1]))
        => LET json == wire[1]
               ExitShaped == {"status", "description"} \subseteq DOMAIN json
           IN  /\ (~(RoomFields \subseteq DOMAIN json) /\ ExitShaped)
                    => decoded[1].kind = "Exit"
               /\ decoded[1].kind = "Message" => ~ExitShaped

\* C17: the encoding of a Room is the flattened object, with "in-progress"
\* for InProgress, and decodes to the same Room, as a Room and as a
\* PathbotApiMessage.
C17_RoomRoundTrip ==
    (value # << >> /\ value[1].kind = "Room" /\ wire # << >>)
        => LET room == value[1].room
               json == wire[1]
           IN  /\ DOMAIN json = RoomFields
               /\ json.mazeExitDirection \in WireCompass
               /\ json.mazeExitDirection = room.maze_exit_hint.direction
               /\ json.mazeExitDistance = room.maze_exit_hint.distance
               /\ json.locationPath = room.location_path
               /\ json.status = "in-progress" <=> room.status = "InProgress"
               /\ json.status = "finished" <=> room.status = "Finished"
               /\ raw_room_ok(json)
               /\ deserialize_room(json) = room
               /\ decoded # << >> => decoded[1] = ApiRoom(room)

\* An InProgress room with three exits was encoded and decoded again.
C17_Witness ==
    /\ value # << >> /\ value[1].kind = "Room"
    /\ value[1].room.status = "InProgress"
    /\ Len(value[1].room.exits) = 3
    /\ wire # << >> /\ wire[1].status = "in-progress"
    /\ decoded = value

\* The keys of a notification list, in the order of iteration.
KeysOf(m) == [i \in 1..Len(m) |-> m[i][1]]

\* The entries of a notification list other than the one with key id.
Without(m, id) ==
    LET F[i \in 0..Len(m)] ==
            IF i = 0 THEN << >>
            ELSE IF m[i][1] = id THEN F[i - 1] ELSE Append(F[i - 1], m[i])
    IN  F[Len(m)]

\* C18: a NewNotification is stored under a key above every key handed out
\* before it: the keys in the list are below the counter, the counter never
\* goes down, also when entries are closed or cleared, and NewNotification
\* uses the counter as key and moves it up by one.
C18_FreshKeys ==
    /\ [](\A i \in 1..Len(notifications) :
            notifications[i][1] < next_notification_id)
    /\ [][next_notification_id' >= next_notification_id]_vars
    /\ [][handled'.type = "NewNotification"
            => /\ next_notification_id' = next_notification_id + 1
               /\ Len(notifications') > 0
               /\ notifications'[Len(notifications')][1] = next_notification_id
               /\ \A i \in 1..Len(notifications) :
                     notifications[i][1] < next_notification_id]_vars

\* Key 0 was handed out and its entry removed; the next notification got key 1.
C18_Witness ==
    /\ handled.type = "NewNotification"
    /\ KeysOf(notifications) = <<1>>
    /\ next_notification_id = 2

\* C19: the list holds the entries still present in insertion order:
\* NewNotification appends, NotificationClosed(id) takes out the entry with
\* key id and nothing else (nothing at all when id is absent), and only
\* ClearNotifications otherwise changes the list.
C19_InsertionOrder ==
    /\ [][handled'.type = "NewNotification"
            => notifications' = Append(notifications,
                    <<next_notification_id, handled'.notification>>)]_vars
    /\ [][handled'.type = "NotificationClosed"
            => /\ notifications' = Without(notifications, handled'.id)
               /\ (\A i \in 1..Len(notifications) :
                      notifications[i][1] # handled'.id)
                    => notifications' = notifications]_vars
    /\ [][handled'.type = "ClearNotifications" => notifications' = << >>]_vars
    /\ [][handled'.type \notin {"NewNotification", "NotificationClosed",
                                "ClearNotifications"}
            => notifications' = notifications]_vars

\* Two notifications are listed in the order they were inserted.
C19_Witness ==
    /\ handled.type = "NewNotification"
    /\ KeysOf(notifications) = <<0, 1>>

\* C20: between restarts an entry of rooms is never removed and never
\* changed: every step other than Init keeps each stored (Room, Coordinate).
C20_RoomsFrozen ==
    [][handled'.type # "Init"
        => \A p \in DOMAIN state.rooms :
              /\ p \in DOMAIN state'.rooms
              /\ state'.rooms[p] = state.rooms[p]]_vars

\* C21: `fetching` is true exactly when a request is outstanding, so that
\* loading() is true exactly when a request is outstanding or status is
\* Loading, and a move intent handled while loading() is true does nothing.
C21_Loading ==
    /\ [](fetching <=> requests # << >>)
    /\ [](loading <=> (requests # << >> \/ state.status.tag = "Loading"))
    /\ [][(handled'.type = "FetchNextRoom" /\ loading)
            => /\ state' = state
               /\ fetching' = fetching
               /\ fetching_move' = fetching_move
               /\ requests' = requests
               /\ sent' = sent
               /\ queue' = << >>
               /\ ~panicked']_vars

\* A move toward an open exit was asked with a key while the request of an
\* earlier move was outstanding, and was dropped.
C21_Witness ==
    /\ handled.type = "FetchNextRoom"
    /\ state.status.tag = "InRoom"
    /\ can_move_direction(state, handled.direction)
    /\ fetching /\ Len(requests) = 1 /\ sent = 2
    /\ queue = << >>

\* The messages the response callback makes.
Completions ==
    {"ReceivedRoom", "ReceivedMessage", "ReceivedExit", "FetchRoomFailed"}

\* C22: a request leaves the outstanding ones exactly by the handling of one
\* ReceivedRoom, ReceivedMessage, ReceivedExit or FetchRoomFailed, which
\* clears `fetching` in the same step, before its follow-up messages are
\* handled; when the transport answers, fetching = true leads to
\* fetching = false.
C22_RequestCompletes ==
    /\ [][(Len(requests') < Len(requests) \/ handled'.type \in Completions)
            => /\ handled'.type \in Completions
               /\ Len(requests') = Len(requests) - 1
               /\ ~fetching']_vars
    /\ fetching ~> ~fetching

\* The answer to a move has been handled: the guard is clear and the
\* follow-up message is still waiting.
C22_Witness ==
    /\ handled.type \in Completions
    /\ sent = 2 /\ requests = << >> /\ ~fetching
    /\ queue # << >>

\* C23: once a failed request has been handled the same intent can be issued
\* again: the guard is clear, so that Init sends a start request, and after a
\* failed move in direction d the move d is accepted (the room has exit d,
\* loading() is false) and fetch hands a request to the network.
C23_RetryAfterFailure ==
    [][handled'.type = "FetchRoomFailed"
        => \A i \in 1..Len(requests) :
              requests' = RemoveAt(requests, i)
                => /\ ~fetching'
                   /\ requests[i].last_move = None => (sends(StartRoom))'
                   /\ \A d \in MoveDirection :
                        requests[i].last_move = d
                          => /\ (~loading)'
                             /\ (can_move_direction(state, d))'
                             /\ (sends(NextRoom(state.status.id, d)))']_vars

\* The direction opposite to d on the compass.
Opposite(d) ==
    CASE d = "N" -> "S"
      [] d = "S" -> "N"
      [] d = "E" -> "W"
      [] d = "W" -> "E"

\* C24: one move adds N=(0,-1), S=(0,1), W=(-1,0), E=(1,0) componentwise,
\* and a move followed by the move in the opposite direction ends on the
\* coordinate it started from.
C24_OppositeDeltas ==
    /\ Len(trail) = 1
         => /\ trail[1] = "N" => (cursor.x = origin.x /\ cursor.y = origin.y - 1)
            /\ trail[1] = "S" => (cursor.x = origin.x /\ cursor.y = origin.y + 1)
            /\ trail[1] = "W" => (cursor.x = origin.x - 1 /\ cursor.y = origin.y)
            /\ trail[1] = "E" => (cursor.x = origin.x + 1 /\ cursor.y = origin.y)
    /\ (Len(trail) = 2 /\ trail[2] = Opposite(trail[1])) => cursor = origin

\* A walk went south and then north, from a coordinate other than (0, 0).
C24_Witness ==
    /\ trail = <<"S", "N">>
    /\ origin = Coordinate(1, -1)
    /\ cursor = origin

\* C25: every definition of CompassDirection::angle_deg gives the clockwise
\* angle N=0, NE=45, E=90, SE=135, S=180, SW=225, W=270, NW=315, and agrees
\* with MoveDirection::angle_deg on N, E, S and W.
C25_ClockwiseAngles ==
    angles # << >>
        => LET clockwise ==
                   CASE heading = "N" -> 0
                     [] heading = "NE" -> 45
                     [] heading = "E" -> 90
                     [] heading = "SE" -> 135
                     [] heading = "S" -> 180
                     [] heading = "SW" -> 225
                     [] heading = "W" -> 270
                     [] heading = "NW" -> 315
           IN  /\ angles[1].compass = clockwise
               /\ angles[1].entities_compass = clockwise
               /\ angles[1].move # << >>
                    => /\ angles[1].move[1] = angles[1].compass
                       /\ angles[1].move[1] = angles[1].entities_compass
               /\ angles[1].entities_move # << >>
                    => angles[1].entities_move[1] = angles[1].entities_compass

\* The number of NewNotification messages among the self-sent messages q.
NewNotifications(q) ==
    Cardinality({i \in 1..Len(q) : q[i].type = "NewNotification"})

\* C26: the handling of a ReceivedRoom sends one NewNotification, and apart
\* from the four completion handlers nothing sends one; in particular a move
\* answered from the coordinate cache sends none.
C26_RoomNotification ==
    /\ [][(handled'.type = "ReceivedRoom" /\ ~panicked')
            => NewNotifications(queue') = 1]_vars
    /\ [][handled'.type \notin Completions
            => NewNotifications(queue') <= NewNotifications(queue)]_vars

\* C27: insert_room called with a last_move while status is not InRoom
\* aborts the program and leaves rooms, room_coords and coord_to_id (the
\* whole State) as they were; no follow-up message is sent.
C27_AbortInsertsNothing ==
    [][(handled'.type \in {"ReceivedRoom", "ReceivedExit"}
          /\ handled'.last_move # None
          /\ state.status.tag # "InRoom")
        => /\ panicked'
           /\ state' = state
           /\ queue' = << >>]_vars

\* The answer to a move arrived after an Init had made the status Loading:
\* the program has aborted and the maps hold what the start had put there.
C27_Witness ==
    /\ panicked
    /\ handled.type = "ReceivedRoom" /\ handled.last_move # None
    /\ state.status.tag = "Loading"
    /\ state.rooms = EmptyMap
    /\ DOMAIN state.coord_to_id = {Coordinate(0, 0)}

\* C28: no sequence of intents and responses reaches one of the aborts.
C28_NoLogicError == ~panicked

\* C29: the three maps agree: room_coords holds the coordinate stored with
\* each room, every value of coord_to_id is a key of rooms, and coord_to_id
\* maps each room's coordinate back to the room's id.
C29_MapsAgree ==
    /\ \A id \in DOMAIN state.rooms :
          /\ id \in DOMAIN state.room_coords
          /\ state.room_coords[id] = state.rooms[id][2]
    /\ \A c \in DOMAIN state.coord_to_id :
          state.coord_to_id[c] \in DOMAIN state.rooms
    /\ \A id \in DOMAIN state.rooms :
          /\ state.rooms[id][2] \in DOMAIN state.coord_to_id
          /\ state.coord_to_id[state.rooms[id][2]] = id

\* C30: no two distinct entries of rooms have the same coordinate.
C30_OneRoomPerCell ==
    \A p, q \in DOMAIN state.rooms :
        state.rooms[p][2] = state.rooms[q][2] => p = q

\* The exit was reached by a move from the second of two rooms: three
\* entries, on three cells.
C30_Witness ==
    /\ Cardinality(DOMAIN state.rooms) = 3
    /\ exit_room_id \in DOMAIN state.rooms
    /\ Cardinality({state.rooms[p][2] : p \in DOMAIN state.rooms}) = 3

\* C32: fetching_move is Some(d) exactly while the request of a move in
\* direction d is outstanding, and None when no request is outstanding or
\* the outstanding request is the start request.
C32_FetchingMove ==
    IF requests = << >>
    THEN fetching_move = None
    ELSE \A i \in 1..Len(requests) : fetching_move = requests[i].last_move

\* C31: when the room received for a move d out of room A has another
\* location_path than A and has the exit inverse(d), the next move intent, if
\* it is inverse(d), is answered from the coordinate cache: no request is
\* sent, MoveToRoom(A) is self-sent and its handling makes the status
\* InRoom(A).
C31_ReturnByCache ==
    /\ [][(/\ handled'.type = "FetchNextRoom"
           /\ arrival # << >>
           /\ arrival[1].phase = "arrived"
           /\ handled'.direction = Opposite(arrival[1].move)
           /\ handled'.direction \in Range(arrival[1].to.exits))
            => /\ sent' = sent
               /\ requests' = << >>
               /\ ~fetching'
               /\ queue' = <<MsgMoveToRoom(arrival[1].from)>>
               /\ ~panicked']_vars
    /\ [][(/\ handled'.type = "MoveToRoom"
           /\ arrival # << >>
           /\ arrival[1].phase = "returning")
            => /\ state'.status = InRoom(arrival[1].from)
               /\ state'.rooms = state.rooms
               /\ sent' = sent
               /\ requests' = << >>
               /\ ~panicked']_vars

\* Room 2 was received for the move S out of room 1, and the move N that
\* followed has brought the client back to room 1 with two requests sent.
C31_Witness ==
    /\ arrival # << >>
    /\ arrival[1].phase = "returned"
    /\ arrival[1].move = "S"
    /\ arrival[1].from = "/pathbot/room1"
    /\ arrival[1].to.location_path = "/pathbot/room2"
    /\ state.status = InRoom("/pathbot/room1")
    /\ handled.type = "MoveToRoom"
    /\ sent = 2 /\ requests = << >>

====
